---- MODULE Spec2Model ----
(***************************************************************************)
(* Model of the snake puzzle generator: the POST /api/generate route        *)
(* (server/routes.ts), the request schema (shared/schema.ts) and the        *)
(* greedy solver of server/snakeGenerator.ts (second, current revision:     *)
(* lines 234-591).                                                          *)
(*                                                                          *)
(* Representation.  A text is a sequence of one-character strings.  A      *)
(* Position is a record [x, y]; a tile key (the string "x,y" of posKey) is  *)
(* the pair <<x, y>>.  A JavaScript Set of keys is a duplicate-free         *)
(* sequence, because Array.from(set) and set.forEach visit the keys in      *)
(* insertion order and the solver depends on that order.                    *)
(***************************************************************************)
EXTENDS Integers, Sequences, FiniteSets, TLC

(***************************************************************************)
(* Bounds of the model.                                                     *)
(***************************************************************************)
MaxLen == 3            \* snake length parameters are drawn from 1..MaxLen
MaxDirectAttempts == 2 \* a direct call passes maxAttempts in 1..MaxDirectAttempts
GridMax == 3           \* helper calls take positions with x, y in 0..GridMax
MaxPathLen == 3        \* helper calls take snakes of up to MaxPathLen positions
MaxTextLen == 4        \* parseShape on its own takes texts of up to MaxTextLen characters

(***************************************************************************)
(* Program constants.                                                       *)
(***************************************************************************)
LcgMul == 9301
LcgInc == 49297
LcgMod == 233280
MaxSnakeAttempts == 10
GreedyCap == 100
DefaultMaxAttempts == 20
SchemaMinLen == 1
SchemaMaxLen == 11
ReadmeIterationLimit == 100000 \* README: "100,000 iteration limit"
ReadmeAttemptLimit == 10       \* README: "Retry logic with up to 10 attempts"

(***************************************************************************)
(* Generic helpers on sequences.                                            *)
(***************************************************************************)
Range(s) == {s[i] : i \in 1..Len(s)}

RECURSIVE SeqFilter(_, _)
\* the elements of s that are in the set keep, in the order of s
SeqFilter(s, keep) ==
  IF s = <<>> THEN <<>>
  ELSE IF Head(s) \in keep THEN <<Head(s)>> \o SeqFilter(Tail(s), keep)
       ELSE SeqFilter(Tail(s), keep)

(***************************************************************************)
(* posKey / parseKey (snakeGenerator.ts 248-256).                           *)
(***************************************************************************)
posKey(x, y) == <<x, y>>
parseKey(key) == [x |-> key[1], y |-> key[2]]
KeyOf(pos) == posKey(pos.x, pos.y)
\* path.map(pos => posKey(pos.x, pos.y))
KeysOf(path) == [i \in 1..Len(path) |-> KeyOf(path[i])]

(***************************************************************************)
(* parseShape (snakeGenerator.ts 261-277).                                  *)
(***************************************************************************)
RECURSIVE SplitLines(_, _)
\* asciiMask.split('\n'): cur is the row being collected
SplitLines(text, cur) ==
  IF text = <<>> THEN <<cur>>
  ELSE IF Head(text) = "\n" THEN <<cur>> \o SplitLines(Tail(text), <<>>)
       ELSE SplitLines(Tail(text), Append(cur, Head(text)))

RECURSIVE MaxRowLen(_)
MaxRowLen(rows) ==
  IF rows = <<>> THEN 0
  ELSE LET m == MaxRowLen(Tail(rows)) IN IF Len(Head(rows)) > m THEN Len(Head(rows)) ELSE m

\* padEnd filling with the mark character
PadEndMarked(row, width) == [i \in 1..(IF Len(row) > width THEN Len(row) ELSE width) |->
                                IF i <= Len(row) THEN row[i] ELSE "#"]

\* row.padEnd(width, ' ')
PadEnd(row, width) == [i \in 1..(IF Len(row) > width THEN Len(row) ELSE width) |->
                          IF i <= Len(row) THEN row[i] ELSE " "]

RECURSIVE RowTilesSkipLast(_, _, _)
\* the column scan stopping one column early
RowTilesSkipLast(padded, x, y) ==
  IF x >= Len(padded) - 1 THEN <<>>
  ELSE (IF padded[x + 1] = "#" THEN <<posKey(x, y)>> ELSE <<>>) \o RowTilesSkipLast(padded, x + 1, y)

RECURSIVE RowTiles(_, _, _)
\* the keys added while scanning the padded row y from column x on
RowTiles(padded, x, y) ==
  IF x >= Len(padded) THEN <<>>
  ELSE (IF padded[x + 1] = "#" THEN <<posKey(x, y)>> ELSE <<>>) \o RowTiles(padded, x + 1, y)

RECURSIVE AllRowTiles(_, _, _)
AllRowTiles(rows, y, width) ==
  IF y >= Len(rows) THEN <<>>
  ELSE RowTiles(PadEnd(rows[y + 1], width), 0, y) \o AllRowTiles(rows, y + 1, width)

parseShape(asciiMask) ==
  LET rows == SplitLines(asciiMask, <<>>)
      width == MaxRowLen(rows)
  IN [tiles |-> AllRowTiles(rows, 0, width), width |-> width, height |-> Len(rows)]

(***************************************************************************)
(* neighbors / countNeighbors (snakeGenerator.ts 282-295, 430-433).         *)
(***************************************************************************)
Offsets == << <<1, 0>>, <<-1, 0>>, <<0, 1>>, <<0, -1>> >>

\* tiles is the sequence of keys of the shape
neighbors(pos, tiles) ==
  LET all == [i \in 1..4 |-> [x |-> pos.x + Offsets[i][1], y |-> pos.y + Offsets[i][2]]]
      inside == {np \in Range(all) : KeyOf(np) \in Range(tiles)}
  IN SeqFilter(all, inside)

countNeighbors(key, tiles) == Len(neighbors(parseKey(key), tiles))

(***************************************************************************)
(* SeededRandom (snakeGenerator.ts 300-311).                                *)
(* A generator is [seeded, seed]; seeded = FALSE is Math.random().          *)
(* JavaScript's % takes the sign of the dividend.  The product seed * 9301  *)
(* is reduced in two steps (9301 = 93 * 100 + 1) only to stay inside TLC's  *)
(* 32-bit integers; the value is that of the double computation, which is   *)
(* exact for |seed| < 2^53 / 9301.                                          *)
(***************************************************************************)
MulMod(n) == LET r == n % LcgMod IN (((r * 93) % LcgMod) * 100 + r) % LcgMod

NextSeed(seed) ==
  IF seed >= 0 THEN (MulMod(seed) + LcgInc) % LcgMod
  ELSE IF -seed <= LcgInc \div LcgMul
       THEN (LcgInc - (-seed) * LcgMul) % LcgMod
       ELSE -((MulMod(-seed) - LcgInc) % LcgMod)

\* Math.floor(next() * n) for the seed state just produced: seed / 233280 * n
\* (checked against the double computation for every state and n <= 11)
FloorScaled(seed, n) == (seed * n) \div LcgMod

\* the possible results of Math.floor((rng ? rng.next() : Math.random()) * n):
\* the value drawn and the generator afterwards
Draw(rng, n) ==
  IF rng.seeded
  THEN LET s == NextSeed(rng.seed) IN {[v |-> FloorScaled(s, n), rng |-> [seeded |-> TRUE, seed |-> s]]}
  ELSE {[v |-> i, rng |-> rng] : i \in 0..(n - 1)}

(***************************************************************************)
(* getSnakeDirection / snakesFaceEachOther (snakeGenerator.ts 328-382).     *)
(* The null direction of a single-cell snake is the string "none".          *)
(***************************************************************************)
\* getSnakeDirection without the null of line 329 for a short snake
getSnakeDirectionNoNull(snake) ==
  IF Len(snake) < 2 THEN "right"
  ELSE LET head == snake[1]
           next == snake[2]
       IN IF next.x > head.x THEN "left"
          ELSE IF next.x < head.x THEN "right"
          ELSE IF next.y > head.y THEN "up"
          ELSE "down"

\* lines 328-342
getSnakeDirection(snake) ==
  IF Len(snake) < 2 THEN "none"
  ELSE LET head == snake[1]
           next == snake[2]
       IN IF next.x > head.x THEN "left"
          ELSE IF next.x < head.x THEN "right"
          ELSE IF next.y > head.y THEN "up"
          ELSE "down"

\* only the cases where the first snake faces left or up
snakesFaceEachOtherFirstOnly(snake1, dir1, snake2, dir2) ==
  IF Len(snake1) = 0 \/ Len(snake2) = 0 THEN FALSE
  ELSE IF dir1 = "none" \/ dir2 = "none" THEN FALSE
  ELSE LET head1 == snake1[1]
           head2 == snake2[1]
       IN \/ /\ head1.y = head2.y
             /\ dir1 = "left" /\ dir2 = "right"
             /\ head1.x > head2.x
          \/ /\ head1.x = head2.x
             /\ dir1 = "up" /\ dir2 = "down"
             /\ head1.y > head2.y

\* snakesFaceEachOther without the position tests of lines 366-367 and 376-377
snakesFaceEachOtherAnyOrder(snake1, dir1, snake2, dir2) ==
  IF Len(snake1) = 0 \/ Len(snake2) = 0 THEN FALSE
  ELSE IF dir1 = "none" \/ dir2 = "none" THEN FALSE
  ELSE LET head1 == snake1[1]
           head2 == snake2[1]
       IN \/ /\ head1.y = head2.y
             /\ (dir1 = "left" /\ dir2 = "right") \/ (dir1 = "right" /\ dir2 = "left")
          \/ /\ head1.x = head2.x
             /\ (dir1 = "up" /\ dir2 = "down") \/ (dir1 = "down" /\ dir2 = "up")

snakesFaceEachOther(snake1, dir1, snake2, dir2) ==
  IF Len(snake1) = 0 \/ Len(snake2) = 0 THEN FALSE
  ELSE IF dir1 = "none" \/ dir2 = "none" THEN FALSE
  ELSE LET head1 == snake1[1]
           head2 == snake2[1]
       IN \/ /\ head1.y = head2.y
             /\ (dir1 = "left" /\ dir2 = "right") \/ (dir1 = "right" /\ dir2 = "left")
             /\ \/ dir1 = "left" /\ head1.x > head2.x
                \/ dir1 = "right" /\ head1.x < head2.x
          \/ /\ head1.x = head2.x
             /\ (dir1 = "up" /\ dir2 = "down") \/ (dir1 = "down" /\ dir2 = "up")
             /\ \/ dir1 = "up" /\ head1.y > head2.y
                \/ dir1 = "down" /\ head1.y < head2.y

(***************************************************************************)
(* generateGreedySnake (snakeGenerator.ts 388-424).                         *)
(* The result is the set of outcomes the random source allows (one outcome  *)
(* for a seeded generator): [kind, path, rng] with kind "path" (a snake is  *)
(* returned), "null" (shorter than minLen) or "throw".  An index drawn      *)
(* outside the candidate list reads undefined, which is pushed on the path; *)
(* posKey(next.x, next.y) at line 419 then throws a TypeError.              *)
(***************************************************************************)
RECURSIVE GrowSnakeRevisiting(_, _, _, _, _, _)
\* GrowSnake without the usedLocal test of line 407
GrowSnakeRevisiting(path, usedLocal, targetLen, tiles, usedGlobal, rng) ==
  IF Len(path) < targetLen
  THEN LET current == path[Len(path)]
           allNeighbors == neighbors(current, tiles)
           candidates == SeqFilter(allNeighbors,
                           {n \in Range(allNeighbors) : KeyOf(n) \notin usedGlobal})
       IN IF Len(candidates) = 0
          THEN {[thrown |-> FALSE, path |-> path, rng |-> rng]}
          ELSE UNION {IF d.v \in 0..(Len(candidates) - 1)
                      THEN LET next == candidates[d.v + 1]
                           IN GrowSnakeRevisiting(Append(path, next), usedLocal \cup {KeyOf(next)},
                                                  targetLen, tiles, usedGlobal, d.rng)
                      ELSE {[thrown |-> TRUE, path |-> path, rng |-> d.rng]}
                      : d \in Draw(rng, Len(candidates))}
  ELSE {[thrown |-> FALSE, path |-> path, rng |-> rng]}

RECURSIVE GrowSnake(_, _, _, _, _, _)
\* the while loop of lines 402-420
GrowSnake(path, usedLocal, targetLen, tiles, usedGlobal, rng) ==
  IF Len(path) < targetLen
  THEN LET current == path[Len(path)]
           allNeighbors == neighbors(current, tiles)
           candidates == SeqFilter(allNeighbors,
                           {n \in Range(allNeighbors) :
                               KeyOf(n) \notin usedGlobal /\ KeyOf(n) \notin usedLocal})
       IN IF Len(candidates) = 0
          THEN {[thrown |-> FALSE, path |-> path, rng |-> rng]}
          ELSE UNION {IF d.v \in 0..(Len(candidates) - 1)
                      THEN LET next == candidates[d.v + 1]
                           IN GrowSnake(Append(path, next), usedLocal \cup {KeyOf(next)},
                                        targetLen, tiles, usedGlobal, d.rng)
                      ELSE {[thrown |-> TRUE, path |-> path, rng |-> d.rng]}
                      : d \in Draw(rng, Len(candidates))}
  ELSE {[thrown |-> FALSE, path |-> path, rng |-> rng]}

\* generateGreedySnake returning the path whatever its length (line 423)
generateGreedySnakeAnyLength(start, tiles, usedGlobal, minLen, maxLen, rng) ==
  UNION {LET targetLen == minLen + d.v
             grown == GrowSnake(<<start>>, {KeyOf(start)}, targetLen, tiles, usedGlobal, d.rng)
         IN {[kind |-> IF g.thrown THEN "throw" ELSE "path",
              path |-> g.path, rng |-> g.rng] : g \in grown}
         : d \in Draw(rng, maxLen - minLen + 1)}

generateGreedySnake(start, tiles, usedGlobal, minLen, maxLen, rng) ==
  UNION {LET targetLen == minLen + d.v
             grown == GrowSnake(<<start>>, {KeyOf(start)}, targetLen, tiles, usedGlobal, d.rng)
         IN {[kind |-> IF g.thrown THEN "throw"
                       ELSE IF Len(g.path) >= minLen THEN "path" ELSE "null",
              path |-> g.path, rng |-> g.rng] : g \in grown}
         : d \in Draw(rng, maxLen - minLen + 1)}

(***************************************************************************)
(* One iteration of the while loop of solveWithGreedy                       *)
(* (snakeGenerator.ts 451-514), in pieces.                                  *)
(***************************************************************************)
RECURSIVE MinDegreeIsMax(_, _)
\* the greatest degree taken for the least
MinDegreeIsMax(keys, tiles) ==
  IF Len(keys) = 1 THEN countNeighbors(keys[1], tiles)
  ELSE LET m == MinDegreeIsMax(Tail(keys), tiles)
           c == countNeighbors(Head(keys), tiles)
       IN IF c > m THEN c ELSE m

RECURSIVE MinDegree(_, _)
\* the least countNeighbors over the keys of a non-empty sequence
MinDegree(keys, tiles) ==
  IF Len(keys) = 1 THEN countNeighbors(keys[1], tiles)
  ELSE LET m == MinDegree(Tail(keys), tiles)
           c == countNeighbors(Head(keys), tiles)
       IN IF c < m THEN c ELSE m

\* the last key, in insertion order, of least degree
StartKeyLast(unusedSeq, tiles) ==
  LET m == MinDegree(unusedSeq, tiles)
      i == CHOOSE j \in 1..Len(unusedSeq) :
             /\ countNeighbors(unusedSeq[j], tiles) = m
             /\ \A k \in (j + 1)..Len(unusedSeq) : countNeighbors(unusedSeq[k], tiles) # m
  IN unusedSeq[i]

\* unusedArray[0] after the stable sort by countNeighbors of Array.from(unused):
\* the first key, in insertion order, of least degree (lines 455-463)
StartKey(unusedSeq, tiles) ==
  LET m == MinDegree(unusedSeq, tiles)
      i == CHOOSE j \in 1..Len(unusedSeq) :
             /\ countNeighbors(unusedSeq[j], tiles) = m
             /\ \A k \in 1..(j - 1) : countNeighbors(unusedSeq[k], tiles) # m
  IN unusedSeq[i]

\* usedGlobal left empty
UsedGlobalEmpty(tiles, unusedSeq) == {}

\* usedGlobal = new Set(tiles) minus the unused keys (lines 467-468)
UsedGlobal(tiles, unusedSeq) == Range(tiles) \ Range(unusedSeq)

\* the direction check never rejecting
ViolatesDirectionNever(candidate, placed, dirs) == FALSE

\* the direction check of lines 482-490 against the placed snakes
ViolatesDirection(candidate, placed, dirs) ==
  LET newDirection == getSnakeDirection(candidate)
  IN \E i \in 1..Len(placed) : snakesFaceEachOther(candidate, newDirection, placed[i], dirs[i])

RECURSIVE TrySnake(_, _, _, _, _, _, _, _, _)
\* the inner while loop of lines 475-495 from the value attempts2 on:
\* the set of [kind, path, rng] with kind "snake" (a candidate was accepted),
\* "none" (the tries ran out) or "throw"
TrySnake(attempts2, start, tiles, usedGlobal, minLen, maxLen, placed, dirs, rng) ==
  IF attempts2 >= MaxSnakeAttempts
  THEN {[kind |-> "none", path |-> <<>>, rng |-> rng]}
  ELSE LET outs == generateGreedySnake(start, tiles, usedGlobal, minLen, maxLen, rng)
           accepted == {o \in outs : o.kind = "path" /\ ~ViolatesDirection(o.path, placed, dirs)}
           thrown == {o \in outs : o.kind = "throw"}
           again == {o.rng : o \in (outs \ (accepted \cup thrown))}
       IN {[kind |-> "snake", path |-> o.path, rng |-> o.rng] : o \in accepted}
          \cup {[kind |-> "throw", path |-> <<>>, rng |-> o.rng] : o \in thrown}
          \cup UNION {TrySnake(attempts2 + 1, start, tiles, usedGlobal, minLen, maxLen,
                               placed, dirs, r) : r \in again}

(***************************************************************************)
(* getLookingAtPosition / snakesToJSON (snakeGenerator.ts 549-591).         *)
(* A null lookingAt is [present |-> FALSE]; the label `Snake${i + 1}` is    *)
(* the pair <<"Snake", i + 1>>.                                             *)
(***************************************************************************)
\* getLookingAtPosition stepping toward the body
getLookingAtPositionTowardBody(head, direction) ==
  IF direction = "none" THEN [present |-> FALSE, x |-> 0, y |-> 0]
  ELSE [present |-> TRUE,
        x |-> head.x + (IF direction = "left" THEN 1 ELSE IF direction = "right" THEN -1 ELSE 0),
        y |-> head.y + (IF direction = "up" THEN 1 ELSE IF direction = "down" THEN -1 ELSE 0)]

\* lines 549-572
getLookingAtPosition(head, direction) ==
  IF direction = "none" THEN [present |-> FALSE, x |-> 0, y |-> 0]
  ELSE [present |-> TRUE,
        x |-> head.x + (IF direction = "left" THEN -1 ELSE IF direction = "right" THEN 1 ELSE 0),
        y |-> head.y + (IF direction = "up" THEN -1 ELSE IF direction = "down" THEN 1 ELSE 0)]

snakesToJSON(snakeList) ==
  [i \in 1..Len(snakeList) |->
     LET snake == snakeList[i]
         direction == getSnakeDirection(snake)
     IN [type |-> <<"Snake", i>>,
         startPos |-> [x |-> 0, y |-> 0],
         direction |-> direction,
         lookingAt |-> getLookingAtPosition(snake[1], direction),
         positions |-> snake]]

(***************************************************************************)
(* The request schema (shared/schema.ts 4-12) and the route's own check     *)
(* (routes.ts 24).                                                          *)
(***************************************************************************)
\* the schema without its refinement of lines 9-12
generateSnakeSchemaNoRefine(body) ==
  /\ Len(body.asciiShape) >= 1
  /\ body.minSnakeLen >= SchemaMinLen /\ body.minSnakeLen <= SchemaMaxLen
  /\ body.maxSnakeLen >= SchemaMinLen /\ body.maxSnakeLen <= SchemaMaxLen

generateSnakeSchema(body) ==
  /\ Len(body.asciiShape) >= 1
  /\ body.minSnakeLen >= SchemaMinLen /\ body.minSnakeLen <= SchemaMaxLen
  /\ body.maxSnakeLen >= SchemaMinLen /\ body.maxSnakeLen <= SchemaMaxLen
  /\ body.minSnakeLen <= body.maxSnakeLen

\* the '#' check passing every shape
IncludesHashAlways(asciiShape) == TRUE

\* asciiShape.includes('#')
IncludesHash(asciiShape) == \E i \in 1..Len(asciiShape) : asciiShape[i] = "#"

(***************************************************************************)
(* Inputs.                                                                  *)
(***************************************************************************)
NoSeed == [given |-> FALSE, value |-> 0]
Seed(n) == [given |-> TRUE, value |-> n]

Row2 == <<"#", "#">>
Row4 == <<"#", "#", "#", "#">>
Block4 == <<"#", "#", "\n", "#", "#">>
Hook5 == <<"#", "\n", "#", "#", " ", "#", "#">>
Blank == <<" ", "\n", " ">>
Block9 == <<"#", "#", "#", "\n", "#", "#", "#", "\n", "#", "#", "#">>
\* a 2x2 block with one more tile on top of its left column
Flag5 == <<"#", "\n", "#", "#", "\n", "#", "#">>
EmptyText == <<>>

ShapeTexts == {Row2, Row4, Block4, Hook5, Blank}
SeedValues == {-7, 0, 1}
Seeds == {NoSeed} \cup {Seed(n) : n \in SeedValues}

\* lengths a validated request can carry, and two the schema refuses
ValidLens == 1..MaxLen
BadLens == {SchemaMinLen - 1, SchemaMaxLen + 1}

Body(text, lo, hi, sd) ==
  [asciiShape |-> text, minSnakeLen |-> lo, maxSnakeLen |-> hi, randomSeed |-> sd]

\* the fully marked 3x3 shape with lengths 1..9 and seed 7
Block9Seed7 == Body(Block9, 1, 9, Seed(7))

\* the 5-tile shape with lengths 3..3 and seed 0
Flag5Seed0 == Body(Flag5, 3, 3, Seed(0))

\* the hook shape with lengths 2..3 and seed 150
Hook5Seed150 == Body(Hook5, 2, 3, Seed(150))

\* bodies with every pair of in-range lengths, min > max included
LenBodies(texts, seeds) ==
  {Body(t, lo, hi, sd) : t \in texts, lo \in ValidLens, hi \in ValidLens, sd \in seeds}

\* the route is posted seeded bodies for every shape and unseeded ones for the
\* two smallest, bodies with an out-of-range length, an empty text, and the
\* 3x3 request and the hook request with seed 150
RouteBodies ==
  LenBodies(ShapeTexts, Seeds \ {NoSeed})
  \cup LenBodies({Row2, Blank}, {NoSeed})
  \cup {Body(Row2, lo, hi, NoSeed) : lo \in BadLens \cup {1}, hi \in BadLens \cup {1}}
  \cup {Body(EmptyText, 1, 1, NoSeed)}
  \cup {Block9Seed7, Hook5Seed150}
\* direct calls pass 1 <= minSnakeLen <= maxSnakeLen; one of them is the
\* 5-tile request
DirectArgs ==
  {b \in LenBodies(ShapeTexts, Seeds) : b.minSnakeLen <= b.maxSnakeLen} \cup {Flag5Seed0}

(***************************************************************************)
(* State.                                                                   *)
(***************************************************************************)
VARIABLES
  pc,          \* "idle", "solve" (at the head of solveWithGreedy's loop), "done"
  via,         \* "route": POST /api/generate; "direct": a call of generateSnakesForShape
  req,         \* the request body / the call's arguments
  maxAttempts, \* generateSnakesForShape's maxAttempts
  tiles,       \* parseShape(asciiShape).tiles
  rng,         \* the call's generator
  attempt,     \* the for loop's attempt (line 536)
  unused,      \* solveWithGreedy's unused
  snakes,      \* solveWithGreedy's snakes
  directions,  \* solveWithGreedy's directions
  attempts,    \* solveWithGreedy's attempts
  result,      \* what generateSnakesForShape returned, or that it threw
  response,    \* what the route sent
  coreCalls,   \* history: calls of generateSnakesForShape made for this request
  outcomes,    \* history: TRUE/FALSE per finished solveWithGreedy call (non-null?)
  expected,    \* history: what the same call returned when it was made before
  fn,          \* a helper function called on its own: its name, or "none"
  arg,         \* the arguments of that call
  out,         \* [done, value]: whether the call returned, and the value
  page         \* the client page Home: its React state and its mutation

vars == <<pc, via, req, maxAttempts, tiles, rng, attempt, unused, snakes, directions,
          attempts, result, response, coreCalls, outcomes, expected, fn, arg, out, page>>
helperVars == <<fn, arg, out, page>>

NoResult == [state |-> "none", ok |-> FALSE, snakes |-> <<>>, attempts |-> 0]
NoResponse == [sent |-> FALSE, status |-> 0, success |-> FALSE, hasAttempts |-> FALSE,
               attempts |-> 0, hasShapes |-> FALSE, shapes |-> <<>>]
Ambient == [seeded |-> FALSE, seed |-> 0]

NoOut == [done |-> FALSE, value |-> <<>>]

\* null (of a list and of a number), and a non-null value, of a React state
\* of the page
Null == [present |-> FALSE, value |-> <<>>]
NullNumber == [present |-> FALSE, value |-> 0]
NonNull(v) == [present |-> TRUE, value |-> v]

\* home.tsx 43-44, 48: the page as it is mounted
PageMounted ==
  [generatedShapes |-> Null, attempts |-> NullNumber, status |-> "idle", data |-> NoResponse,
   exported |-> Null]

\* no request is being served
Idle ==
  /\ pc = "idle"
  /\ via = "route"
  /\ req = Body(Row2, 1, 1, NoSeed)
  /\ maxAttempts = DefaultMaxAttempts
  /\ tiles = <<>>
  /\ rng = Ambient
  /\ attempt = 0
  /\ unused = <<>>
  /\ snakes = <<>>
  /\ directions = <<>>
  /\ attempts = 0
  /\ result = NoResult
  /\ response = NoResponse
  /\ coreCalls = 0
  /\ outcomes = <<>>
  /\ expected = NoResult
  /\ page = PageMounted

Init ==
  /\ Idle
  /\ fn = "none"
  /\ arg = <<>>
  /\ out = NoOut

(***************************************************************************)
(* The route's responses (routes.ts 13-66).                                 *)
(***************************************************************************)
Rejection == [sent |-> TRUE, status |-> 400, success |-> FALSE, hasAttempts |-> FALSE,
              attempts |-> 0, hasShapes |-> FALSE, shapes |-> <<>>]
ServerError == [sent |-> TRUE, status |-> 500, success |-> FALSE, hasAttempts |-> FALSE,
                attempts |-> 0, hasShapes |-> FALSE, shapes |-> <<>>]
\* lines 40-58: the response for a value returned by generateSnakesForShape
ResponseFor(res) ==
  IF ~res.ok
  THEN [sent |-> TRUE, status |-> 200, success |-> FALSE, hasAttempts |-> TRUE,
        attempts |-> res.attempts, hasShapes |-> FALSE, shapes |-> <<>>]
  ELSE [sent |-> TRUE, status |-> 200, success |-> TRUE, hasAttempts |-> TRUE,
        attempts |-> res.attempts, hasShapes |-> TRUE, shapes |-> snakesToJSON(res.snakes)]

(***************************************************************************)
(* generateSnakesForShape (snakeGenerator.ts 523-544).                      *)
(***************************************************************************)
\* a generator kept across calls instead of built per call
NewRngShared(randomSeed) ==
  IF rng.seeded THEN rng
  ELSE IF randomSeed.given THEN [seeded |-> TRUE, seed |-> randomSeed.value] ELSE Ambient

\* line 533: the request-scoped generator
NewRng(randomSeed) ==
  IF randomSeed.given THEN [seeded |-> TRUE, seed |-> randomSeed.value] ELSE Ambient

\* lines 530-537 and 446-449: parse, build the generator, enter attempt 1 of
\* the for loop (cap >= 1 for every caller of the model) and solveWithGreedy
Generate(args, cap) ==
  /\ req' = args
  /\ maxAttempts' = cap
  /\ tiles' = parseShape(args.asciiShape).tiles
  /\ rng' = NewRng(args.randomSeed)
  /\ attempt' = 1
  /\ unused' = tiles'
  /\ snakes' = <<>>
  /\ directions' = <<>>
  /\ attempts' = 0
  /\ result' = NoResult
  /\ response' = NoResponse
  /\ coreCalls' = 1
  /\ outcomes' = <<>>
  /\ pc' = "solve"
  /\ UNCHANGED helperVars

\* a 0-based attempt number in the success value
ReturnValueZeroBased(ok, list) ==
  [state |-> "returned", ok |-> ok,
   snakes |-> IF ok THEN list ELSE <<>>,
   attempts |-> IF ok THEN attempt - 1 ELSE maxAttempts]

\* lines 539 and 543: the value generateSnakesForShape returns
ReturnValue(ok, list) ==
  [state |-> "returned", ok |-> ok,
   snakes |-> IF ok THEN list ELSE <<>>,
   attempts |-> IF ok THEN attempt ELSE maxAttempts]

\* a generator built anew for every solve attempt
AttemptReturnsReseeding(ok, list, n, r) ==
  /\ rng' = NewRng(req.randomSeed)
  /\ outcomes' = Append(outcomes, ok)
  /\ UNCHANGED <<via, req, maxAttempts, tiles, coreCalls, expected, fn, arg, out, page>>
  /\ IF ~ok /\ attempt + 1 <= maxAttempts
     THEN /\ attempt' = attempt + 1
          /\ unused' = tiles
          /\ snakes' = <<>>
          /\ directions' = <<>>
          /\ attempts' = 0
          /\ UNCHANGED <<pc, result, response>>
     ELSE LET res == ReturnValue(ok, list)
          IN /\ result' = res
             /\ response' = IF via = "route" THEN ResponseFor(res) ELSE NoResponse
             /\ pc' = "done"
             /\ attempts' = n
             /\ UNCHANGED <<attempt, unused, snakes, directions>>

\* lines 538-543 (and routes.ts 40-58 when the route is the caller): the
\* solveWithGreedy call of this attempt returned; ok is `snakes !== null`,
\* n the value its counter had
AttemptReturns(ok, list, n, r) ==
  /\ rng' = r
  /\ outcomes' = Append(outcomes, ok)
  /\ UNCHANGED <<via, req, maxAttempts, tiles, coreCalls, expected, fn, arg, out, page>>
  /\ IF ~ok /\ attempt + 1 <= maxAttempts
     THEN /\ attempt' = attempt + 1
          /\ unused' = tiles
          /\ snakes' = <<>>
          /\ directions' = <<>>
          /\ attempts' = 0
          /\ UNCHANGED <<pc, result, response>>
     ELSE LET res == ReturnValue(ok, list)
          IN /\ result' = res
             /\ response' = IF via = "route" THEN ResponseFor(res) ELSE NoResponse
             /\ pc' = "done"
             /\ attempts' = n
             /\ UNCHANGED <<attempt, unused, snakes, directions>>

(***************************************************************************)
(* POST /api/generate (routes.ts 8-67) and direct calls of the exported     *)
(* generateSnakesForShape.                                                  *)
(***************************************************************************)
Ready == pc = "idle"

\* lines 11-19: the schema refuses the body
PostInvalid(body) ==
  /\ Ready
  /\ ~generateSnakeSchema(body)
  /\ via' = "route"
  /\ req' = body
  /\ response' = Rejection
  /\ result' = NoResult
  /\ coreCalls' = 0
  /\ outcomes' = <<>>
  /\ pc' = "done"
  /\ UNCHANGED <<maxAttempts, tiles, rng, attempt, unused, snakes, directions, attempts, expected,
                 fn, arg, out, page>>

\* lines 24-30: no '#' in the shape
PostNoTile(body) ==
  /\ Ready
  /\ generateSnakeSchema(body)
  /\ ~IncludesHash(body.asciiShape)
  /\ via' = "route"
  /\ req' = body
  /\ response' = Rejection
  /\ result' = NoResult
  /\ coreCalls' = 0
  /\ outcomes' = <<>>
  /\ pc' = "done"
  /\ UNCHANGED <<maxAttempts, tiles, rng, attempt, unused, snakes, directions, attempts, expected,
                 fn, arg, out, page>>

\* lines 33-38: the core is called with the default maxAttempts
PostAccepted(body) ==
  /\ Ready
  /\ generateSnakeSchema(body)
  /\ IncludesHash(body.asciiShape)
  /\ via' = "route"
  /\ expected' = NoResult
  /\ Generate(body, DefaultMaxAttempts)

\* a caller other than the route
CallDirect(args, cap) ==
  /\ Ready
  /\ via' = "direct"
  /\ expected' = NoResult
  /\ Generate(args, cap)

\* the caller repeats a seeded call with the same arguments; the first
\* call's outcome is kept for comparison
Repeat ==
  /\ pc = "done"
  /\ coreCalls = 1
  /\ req.randomSeed.given
  /\ expected.state = "none"
  /\ expected' = result
  /\ UNCHANGED via
  /\ Generate(req, maxAttempts)

\* the handler / the call is over; no state of it is kept by the server
Release ==
  /\ pc = "done"
  /\ pc' = "idle"
  /\ via' = "route"
  /\ req' = Body(Row2, 1, 1, NoSeed)
  /\ maxAttempts' = DefaultMaxAttempts
  /\ tiles' = <<>>
  /\ rng' = Ambient
  /\ attempt' = 0
  /\ unused' = <<>>
  /\ snakes' = <<>>
  /\ directions' = <<>>
  /\ attempts' = 0
  /\ result' = NoResult
  /\ response' = NoResponse
  /\ coreCalls' = 0
  /\ outcomes' = <<>>
  /\ expected' = NoResult
  /\ UNCHANGED helperVars

(***************************************************************************)
(* solveWithGreedy (snakeGenerator.ts 439-518), one loop iteration per      *)
(* action.                                                                  *)
(***************************************************************************)
\* the loop condition without the iteration cap
LoopCondNoCap == Len(unused) > 0

\* line 451
LoopCond == Len(unused) > 0 /\ attempts < GreedyCap

\* lines 454-495: what the selection of a start and the tries can yield
StepOutcomes ==
  LET startKey == StartKey(unused, tiles)
      start == parseKey(startKey)
      usedGlobal == UsedGlobal(tiles, unused)
  IN TrySnake(0, start, tiles, usedGlobal, req.minSnakeLen, req.maxSnakeLen,
              snakes, directions, rng)

\* only the first key added back
SetAddHead(setSeq, keys) ==
  IF keys = <<>> \/ Head(keys) \in Range(setSeq) THEN setSeq ELSE Append(setSeq, Head(keys))

RECURSIVE SetAddAll(_, _)
\* keys.forEach(key => set.add(key))
SetAddAll(setSeq, keys) ==
  IF keys = <<>> THEN setSeq
  ELSE SetAddAll(IF Head(keys) \in Range(setSeq) THEN setSeq ELSE Append(setSeq, Head(keys)),
                 Tail(keys))

\* set.delete applied to all the keys but the first
SetDeleteAllButHead(setSeq, keys) == SeqFilter(setSeq, Range(setSeq) \ Range(Tail(keys)))

\* keys.forEach(key => set.delete(key))
SetDeleteAll(setSeq, keys) == SeqFilter(setSeq, Range(setSeq) \ Range(keys))

\* lines 509-513
PlaceSnake ==
  /\ pc = "solve"
  /\ LoopCond
  /\ \E o \in StepOutcomes :
       /\ o.kind = "snake"
       /\ unused' = SetDeleteAll(unused, KeysOf(o.path))
       /\ snakes' = Append(snakes, o.path)
       /\ directions' = Append(directions, getSnakeDirection(o.path))
       /\ rng' = o.rng
  /\ attempts' = attempts + 1
  /\ UNCHANGED <<pc, via, req, maxAttempts, tiles, attempt, result, response, coreCalls,
                 outcomes, expected, fn, arg, out, page>>

\* a backtrack popping the snake and leaving its direction in the list
BacktrackKeepingDirection ==
  /\ pc = "solve"
  /\ LoopCond
  /\ Len(snakes) > 0
  /\ \E o \in StepOutcomes :
       /\ o.kind = "none"
       /\ rng' = o.rng
  /\ LET lastSnake == snakes[Len(snakes)]
     IN /\ snakes' = SubSeq(snakes, 1, Len(snakes) - 1)
        /\ directions' = directions
        /\ unused' = SetAddAll(unused, KeysOf(lastSnake))
  /\ attempts' = attempts + 1
  /\ UNCHANGED <<pc, via, req, maxAttempts, tiles, attempt, result, response, coreCalls,
                 outcomes, expected, fn, arg, out, page>>

\* lines 497-502, 506
Backtrack ==
  /\ pc = "solve"
  /\ LoopCond
  /\ Len(snakes) > 0
  /\ \E o \in StepOutcomes :
       /\ o.kind = "none"
       /\ rng' = o.rng
  /\ LET lastSnake == snakes[Len(snakes)]
     IN /\ snakes' = SubSeq(snakes, 1, Len(snakes) - 1)
        /\ directions' = SubSeq(directions, 1, Len(directions) - 1)
        /\ unused' = SetAddAll(unused, KeysOf(lastSnake))
  /\ attempts' = attempts + 1
  /\ UNCHANGED <<pc, via, req, maxAttempts, tiles, attempt, result, response, coreCalls,
                 outcomes, expected, fn, arg, out, page>>

\* lines 503-505: nothing to backtrack, the attempt returns null
GiveUp ==
  /\ pc = "solve"
  /\ LoopCond
  /\ Len(snakes) = 0
  /\ \E o \in StepOutcomes :
       /\ o.kind = "none"
       /\ AttemptReturns(FALSE, <<>>, attempts + 1, o.rng)

\* the TypeError of line 419 leaves solveWithGreedy and generateSnakesForShape;
\* the route catches it (routes.ts 59-66)
Throws ==
  /\ pc = "solve"
  /\ LoopCond
  /\ \E o \in StepOutcomes :
       /\ o.kind = "throw"
       /\ rng' = o.rng
  /\ attempts' = attempts + 1
  /\ result' = [state |-> "thrown", ok |-> FALSE, snakes |-> <<>>, attempts |-> 0]
  /\ response' = IF via = "route" THEN ServerError ELSE NoResponse
  /\ pc' = "done"
  /\ UNCHANGED <<via, req, maxAttempts, tiles, attempt, unused, snakes, directions, coreCalls,
                 outcomes, expected, fn, arg, out, page>>

\* the loop's end always reported as success
LoopExitAlwaysSuccess ==
  /\ pc = "solve"
  /\ ~LoopCond
  /\ AttemptReturns(TRUE, snakes, attempts, rng)

\* lines 451, 516-517: the loop ends
LoopExit ==
  /\ pc = "solve"
  /\ ~LoopCond
  /\ AttemptReturns(Len(unused) = 0, snakes, attempts, rng)

Next ==
  \/ \E body \in RouteBodies : PostInvalid(body)
  \/ \E body \in RouteBodies : PostNoTile(body)
  \/ \E body \in RouteBodies : PostAccepted(body)
  \/ \E args \in DirectArgs, cap \in 1..MaxDirectAttempts : CallDirect(args, cap)
  \/ Repeat
  \/ Release
  \/ PlaceSnake
  \/ Backtrack
  \/ GiveUp
  \/ Throws
  \/ LoopExit

Spec == Init /\ [][Next]_vars

(***************************************************************************)
(* The helper functions called on their own, on arguments drawn from       *)
(* bounded sets: positions of a (GridMax+1) x (GridMax+1) grid, snakes of   *)
(* up to MaxPathLen positions, texts of up to MaxTextLen characters.        *)
(***************************************************************************)
Cells == [x : 0..GridMax, y : 0..GridMax]
Adjacent(a, b) ==
  \/ a.x = b.x /\ (a.y = b.y + 1 \/ b.y = a.y + 1)
  \/ a.y = b.y /\ (a.x = b.x + 1 \/ b.x = a.x + 1)
RECURSIVE SnakePathsOfLen(_)
\* the paths of n positions the solver can build: 4-adjacent steps, no
\* position twice
SnakePathsOfLen(n) ==
  IF n = 1 THEN {<<c>> : c \in Cells}
  ELSE UNION {{Append(p, c) : c \in {d \in Cells : Adjacent(p[Len(p)], d) /\ d \notin Range(p)}}
              : p \in SnakePathsOfLen(n - 1)}
SnakePaths == UNION {SnakePathsOfLen(n) : n \in 1..MaxPathLen}
\* every sequence of at most 2 positions, adjacent or not
ShortPaths == UNION {[1..n -> Cells] : n \in 0..2}
Directions == {"none", "left", "right", "up", "down"}
Chars == {"#", " ", ".", "\n"}
Texts == UNION {[1..n -> Chars] : n \in 0..MaxTextLen}

DirectionArgs == ShortPaths \cup SnakePaths
\* snakes of at most 2 cells with the direction solveWithGreedy passes for
\* them (lines 482, 485, 512), and heads alone with every direction
FaceHeads == {p \in SnakePaths : Len(p) <= 2} \cup {<<>>}
FaceArgs ==
  {[snake1 |-> p, dir1 |-> getSnakeDirection(p), snake2 |-> q, dir2 |-> getSnakeDirection(q)]
     : p \in FaceHeads, q \in FaceHeads}
  \cup [snake1 : {p \in FaceHeads : Len(p) <= 1}, dir1 : Directions,
        snake2 : {p \in FaceHeads : Len(p) <= 1}, dir2 : Directions]
JSONArgs == {<<>>} \cup {<<p>> : p \in SnakePaths}
              \cup {<<p, q>> : p \in {r \in SnakePaths : Len(r) <= 2}, q \in SnakePaths}
ParseArgs == Texts

HelperInit ==
  /\ Idle
  /\ out = NoOut
  /\ \/ fn = "getSnakeDirection" /\ arg \in DirectionArgs
     \/ fn = "snakesFaceEachOther" /\ arg \in FaceArgs
     \/ fn = "snakesToJSON" /\ arg \in JSONArgs
     \/ fn = "parseShape" /\ arg \in ParseArgs

Returns(name, value) ==
  /\ fn = name
  /\ ~out.done
  /\ out' = [done |-> TRUE, value |-> value]
  /\ UNCHANGED <<pc, via, req, maxAttempts, tiles, rng, attempt, unused, snakes, directions,
                 attempts, result, response, coreCalls, outcomes, expected, fn, arg, page>>

CallGetSnakeDirection ==
  /\ fn = "getSnakeDirection"
  /\ Returns("getSnakeDirection", getSnakeDirection(arg))
CallSnakesFaceEachOther ==
  /\ fn = "snakesFaceEachOther"
  /\ Returns("snakesFaceEachOther",
             snakesFaceEachOther(arg.snake1, arg.dir1, arg.snake2, arg.dir2))
CallSnakesToJSON ==
  /\ fn = "snakesToJSON"
  /\ Returns("snakesToJSON", snakesToJSON(arg))
CallParseShape ==
  /\ fn = "parseShape"
  /\ Returns("parseShape", parseShape(arg))

HelperNext ==
  \/ CallGetSnakeDirection
  \/ CallSnakesFaceEachOther
  \/ CallSnakesToJSON
  \/ CallParseShape

HelperSpec == HelperInit /\ [][HelperNext]_vars

(***************************************************************************)
(* The client page Home (home.tsx): the generate mutation and the export    *)
(* button.  The responses it is given are the ones the route sends and      *)
(* others its response type allows (shapes and attempts are optional).      *)
(***************************************************************************)
\* snake lists a success response can carry
PageSolutions ==
  {<<>>,
   <<<<parseKey(<<0, 0>>), parseKey(<<1, 0>>)>>>>,
   <<<<parseKey(<<0, 0>>)>>, <<parseKey(<<1, 0>>)>>>>}
\* attempts values a response can carry
PageAttempts == {0, 1, DefaultMaxAttempts}

\* response bodies with success: true
SuccessResponses ==
  {[sent |-> TRUE, status |-> 200, success |-> TRUE, hasAttempts |-> ha,
    attempts |-> IF ha THEN n ELSE 0, hasShapes |-> hs,
    shapes |-> IF hs THEN snakesToJSON(sol) ELSE <<>>] :
     ha \in BOOLEAN, n \in PageAttempts, hs \in BOOLEAN, sol \in PageSolutions}
\* response bodies with success: false: the route's 400, 500 and its 200 after
\* the attempts ran out
FailureResponses ==
  {Rejection, ServerError}
  \cup {ResponseFor([state |-> "returned", ok |-> FALSE, snakes |-> <<>>, attempts |-> n]) :
          n \in PageAttempts}
PageResponses == SuccessResponses \cup FailureResponses

\* lines 70-78, 311: Generate is clicked; the button is disabled while a
\* request is pending
HandleGenerate ==
  /\ page.status # "pending"
  /\ page' = [page EXCEPT !.status = "pending", !.data = NoResponse]
  /\ UNCHANGED <<pc, via, req, maxAttempts, tiles, rng, attempt, unused, snakes, directions,
                 attempts, result, response, coreCalls, outcomes, expected, fn, arg, out>>

\* lines 49-62: the request resolved with a response body; onSuccess
MutationResolves(data) ==
  /\ page.status = "pending"
  /\ page' = IF data.success /\ data.hasShapes
             THEN [page EXCEPT !.status = "success", !.data = data,
                               !.generatedShapes = NonNull(data.shapes),
                               !.attempts = IF data.hasAttempts /\ data.attempts # 0
                                            THEN NonNull(data.attempts) ELSE NullNumber]
             ELSE [page EXCEPT !.status = "success", !.data = data,
                               !.generatedShapes = Null, !.attempts = NullNumber]
  /\ UNCHANGED <<pc, via, req, maxAttempts, tiles, rng, attempt, unused, snakes, directions,
                 attempts, result, response, coreCalls, outcomes, expected, fn, arg, out>>

\* the request rejected without clearing anything
MutationRejectsKeeping ==
  /\ page.status = "pending"
  /\ page' = [page EXCEPT !.status = "error", !.data = NoResponse]
  /\ UNCHANGED <<pc, via, req, maxAttempts, tiles, rng, attempt, unused, snakes, directions,
                 attempts, result, response, coreCalls, outcomes, expected, fn, arg, out>>

\* lines 49-52, 63-67: the request rejected (the transport failed, or
\* apiRequest threw); onError
MutationRejects ==
  /\ page.status = "pending"
  /\ page' = [page EXCEPT !.status = "error", !.data = NoResponse,
                          !.generatedShapes = Null, !.attempts = NullNumber]
  /\ UNCHANGED <<pc, via, req, maxAttempts, tiles, rng, attempt, unused, snakes, directions,
                 attempts, result, response, coreCalls, outcomes, expected, fn, arg, out>>

\* lines 85-98, 228: Export JSON is clicked; nothing happens without shapes
HandleExportJSON ==
  /\ page.generatedShapes.present
  /\ page' = [page EXCEPT !.exported = NonNull(page.generatedShapes.value)]
  /\ UNCHANGED <<pc, via, req, maxAttempts, tiles, rng, attempt, unused, snakes, directions,
                 attempts, result, response, coreCalls, outcomes, expected, fn, arg, out>>

PageNext ==
  \/ HandleGenerate
  \/ \E data \in PageResponses : MutationResolves(data)
  \/ MutationRejects
  \/ HandleExportJSON

PageSpec == Init /\ [][PageNext]_vars

(***************************************************************************)
(* Properties.                                                              *)
(***************************************************************************)
Returned == pc = "done" /\ result.state = "returned"
Solved == Returned /\ result.ok
SnakeKeys(snake) == {KeyOf(snake[i]) : i \in 1..Len(snake)}
SolutionDirs == [i \in 1..Len(result.snakes) |-> getSnakeDirection(result.snakes[i])]

\* C1: a returned solution is an exact partition of the shape's tiles: the
\* snakes are pairwise disjoint and together they are the parsed tile set.
ExactPartition ==
  Solved =>
    /\ \A i, j \in 1..Len(result.snakes) :
         i # j => SnakeKeys(result.snakes[i]) \cap SnakeKeys(result.snakes[j]) = {}
    /\ UNION {SnakeKeys(result.snakes[i]) : i \in 1..Len(result.snakes)}
         = Range(parseShape(req.asciiShape).tiles)

\* a solution of three or more snakes for a shape of more than one row
ExactPartitionWitness ==
  /\ Solved
  /\ Len(result.snakes) >= 3
  /\ parseShape(req.asciiShape).height > 1

\* C2: every snake of a returned solution has a length in
\* minSnakeLen..maxSnakeLen.
LengthBounds ==
  Solved =>
    \A i \in 1..Len(result.snakes) :
      /\ Len(result.snakes[i]) >= req.minSnakeLen
      /\ Len(result.snakes[i]) <= req.maxSnakeLen

\* a solution with minSnakeLen > 1 whose snakes have different lengths
LengthBoundsWitness ==
  /\ Solved
  /\ req.minSnakeLen > 1
  /\ \E i, j \in 1..Len(result.snakes) : Len(result.snakes[i]) < Len(result.snakes[j])

\* C3: every snake of a returned solution is a simple path of shape tiles
\* whose consecutive positions differ by 1 in exactly one coordinate.
Abs(n) == IF n < 0 THEN -n ELSE n
SimplePaths ==
  Solved =>
    \A i \in 1..Len(result.snakes) :
      LET snake == result.snakes[i]
      IN /\ \A a, b \in 1..Len(snake) : a # b => snake[a] # snake[b]
         /\ \A a \in 1..Len(snake) : KeyOf(snake[a]) \in Range(parseShape(req.asciiShape).tiles)
         /\ \A a \in 1..(Len(snake) - 1) :
              Abs(snake[a].x - snake[a + 1].x) + Abs(snake[a].y - snake[a + 1].y) = 1

\* a solution with a snake of three cells that turns a corner
SimplePathsWitness ==
  /\ Solved
  /\ \E i \in 1..Len(result.snakes) :
       LET snake == result.snakes[i]
       IN Len(snake) = 3 /\ snake[1].x # snake[3].x /\ snake[1].y # snake[3].y

\* C4: no two distinct snakes of a returned solution face each other.
NoFacingPair ==
  Solved =>
    \A i, j \in 1..Len(result.snakes) :
      i # j => ~snakesFaceEachOther(result.snakes[i], SolutionDirs[i],
                                    result.snakes[j], SolutionDirs[j])

\* a solution found after a backtrack, with two snakes whose heads share a
\* row and look in opposite directions
NoFacingPairWitness ==
  /\ Solved
  /\ attempts > Len(result.snakes)
  /\ \E i, j \in 1..Len(result.snakes) :
       /\ result.snakes[i][1].y = result.snakes[j][1].y
       /\ SolutionDirs[i] = "left"
       /\ SolutionDirs[j] = "right"

\* C5: a seeded call repeated with the same shape text, lengths, maxAttempts
\* and seed returns what the first call returned (same snakes in the same
\* order, same attempt count), whatever the first call left behind.
RepeatedCallAgrees ==
  (pc = "done" /\ expected.state # "none") => result = expected

\* a repeated call that returned a solution of several snakes after it had
\* backtracked
RepeatedCallAgreesWitness ==
  /\ Solved
  /\ expected.state = "returned"
  /\ Len(result.snakes) >= 2
  /\ attempts > Len(result.snakes)

\* C6 as stated: for the row of four cells with minSnakeLen = maxSnakeLen = 2
\* generateSnakesForShape returns failure for every seed.
IsRow4Pairs ==
  /\ req.asciiShape = Row4
  /\ req.minSnakeLen = 2
  /\ req.maxSnakeLen = 2
Row4Solution ==
  << <<[x |-> 0, y |-> 0], [x |-> 1, y |-> 0]>>, <<[x |-> 3, y |-> 0], [x |-> 2, y |-> 0]>> >>
AllFailed(n) == \A k \in 1..n : ~outcomes[k]
FirstSuccessReturned ==
  /\ pc = "solve" =>
       /\ attempt \in 1..maxAttempts
       /\ Len(outcomes) = attempt - 1
       /\ AllFailed(attempt - 1)
  /\ Returned =>
       IF result.ok
       THEN /\ result.attempts = Len(outcomes)
            /\ result.attempts = attempt
            /\ result.attempts \in 1..maxAttempts
            /\ outcomes[Len(outcomes)]
            /\ AllFailed(Len(outcomes) - 1)
       ELSE /\ result.attempts = maxAttempts
            /\ Len(outcomes) = maxAttempts
            /\ AllFailed(maxAttempts)

\* a solution returned by the second attempt after the first one failed
FirstSuccessReturnedWitness ==
  /\ Solved
  /\ result.attempts = 2
  /\ outcomes = <<FALSE, TRUE>>

\* C8: a posted body without a '#', with minSnakeLen > maxSnakeLen or with a
\* length outside 1..11 is answered with a rejection, and
\* generateSnakesForShape is not called for it.
MustReject(body) ==
  \/ \A i \in 1..Len(body.asciiShape) : body.asciiShape[i] # "#"
  \/ body.minSnakeLen > body.maxSnakeLen
  \/ body.minSnakeLen \notin 1..11
  \/ body.maxSnakeLen \notin 1..11
RejectedBeforeCore ==
  (pc \in {"solve", "done"} /\ via = "route" /\ MustReject(req)) =>
    /\ coreCalls = 0
    /\ pc = "done"
    /\ response.sent
    /\ response.status = 400
    /\ ~response.success

\* a rejected body whose lengths are both in range but in the wrong order
RejectedBeforeCoreWitness ==
  /\ pc = "done"
  /\ via = "route"
  /\ response.status = 400
  /\ req.minSnakeLen \in 1..11
  /\ req.maxSnakeLen \in 1..11
  /\ req.minSnakeLen > req.maxSnakeLen
  /\ IncludesHash(req.asciiShape)

\* C9 as stated: a failure response carries an attempt count exactly when
\* the core ran, and then the count is the attempt cap.
FailureCarriesAttempts ==
  (pc = "done" /\ via = "route" /\ response.sent /\ ~response.success) =>
    /\ response.hasAttempts <=> coreCalls = 1
    /\ coreCalls = 1 => response.attempts = DefaultMaxAttempts

\* C10 as stated: every value a seeded generator returns is >= 0 and < 1, so
\* every index floor(next() * n) lies in 0..n-1.  The generator states are
\* those at the head of a solver iteration, where the next call of next() is
\* the first one of generateGreedySnake.
NextInUnitInterval ==
  (pc = "solve" /\ LoopCond /\ rng.seeded) =>
    LET s == NextSeed(rng.seed)
    IN /\ s >= 0
       /\ s < LcgMod
       /\ \A n \in 1..SchemaMaxLen : FloorScaled(s, n) \in 0..(n - 1)

\* a call the route would make: the body passes the schema and has a '#'
Validated(body) == generateSnakeSchema(body) /\ IncludesHash(body.asciiShape)

\* C11 as stated: a call of generateSnakesForShape for a validated request
\* ends by returning a value (a solution or null), never by an exception.
NeverThrows ==
  (pc = "done" /\ coreCalls = 1 /\ Validated(req)) => result.state = "returned"

\* solveWithGreedy and generateSnakesForShape are synchronous code: once
\* called, the next loop iteration or return is always taken.  This is the
\* weak fairness WF_vars(SolverStep), written out with its enabling condition:
\* a solver step is possible exactly while a call is running (pc = "solve"),
\* and the steps taken from such a state are the solver steps.
SolverStep == PlaceSnake \/ Backtrack \/ GiveUp \/ Throws \/ LoopExit
FairSpec == Spec /\ ([]<>(pc # "solve") \/ []<><<pc = "solve">>_vars)

\* the snake-generation calls the next loop iteration can start with
FirstTries ==
  generateGreedySnake(parseKey(StartKey(unused, tiles)), tiles, UsedGlobal(tiles, unused),
                      req.minSnakeLen, req.maxSnakeLen, rng)
\* iterations of the while loop of lines 402-420 that pushed onto the path
ExtensionSteps(o) == Len(o.path) - 1 + (IF o.kind = "throw" THEN 1 ELSE 0)

CallBounded ==
  /\ attempt <= maxAttempts
  /\ Len(outcomes) <= maxAttempts
  /\ attempts <= GreedyCap
  /\ (pc = "solve" /\ LoopCond) => \A o \in FirstTries : ExtensionSteps(o) <= req.maxSnakeLen

DirectionVector(d) ==
  [x |-> IF d = "left" THEN -1 ELSE IF d = "right" THEN 1 ELSE 0,
   y |-> IF d = "up" THEN -1 ELSE IF d = "down" THEN 1 ELSE 0]
DirectionRule ==
  (fn = "getSnakeDirection" /\ out.done) =>
    /\ Len(arg) < 2 => out.value = "none"
    /\ (Len(arg) >= 2 /\ Adjacent(arg[1], arg[2])) =>
         LET head == arg[1]
             second == arg[2]
         IN /\ second.x > head.x => out.value = "left"
            /\ second.x < head.x => out.value = "right"
            /\ second.y > head.y => out.value = "up"
            /\ second.y < head.y => out.value = "down"
            /\ DirectionVector(out.value) = [x |-> head.x - second.x, y |-> head.y - second.y]

\* the call returned up for a 3-cell snake whose second cell is below its head
DirectionRuleWitness ==
  /\ fn = "getSnakeDirection"
  /\ out.done
  /\ Len(arg) = 3
  /\ Adjacent(arg[1], arg[2])
  /\ arg[2].y > arg[1].y
  /\ out.value = "up"

\* C14: for two snakes that both have a direction, snakesFaceEachOther is
\* true exactly when the heads share a row, the directions are left and
\* right and the left-facing head has the strictly greater x, or the heads
\* share a column, the directions are up and down and the up-facing head has
\* the strictly greater y; heads back to back are not facing.
FacingAsStated(head1, dir1, head2, dir2) ==
  \/ /\ head1.y = head2.y
     /\ {dir1, dir2} = {"left", "right"}
     /\ LET leftFacing == IF dir1 = "left" THEN head1 ELSE head2
            rightFacing == IF dir1 = "left" THEN head2 ELSE head1
        IN leftFacing.x > rightFacing.x
  \/ /\ head1.x = head2.x
     /\ {dir1, dir2} = {"up", "down"}
     /\ LET upFacing == IF dir1 = "up" THEN head1 ELSE head2
            downFacing == IF dir1 = "up" THEN head2 ELSE head1
        IN upFacing.y > downFacing.y
FacingRule ==
  (/\ fn = "snakesFaceEachOther" /\ out.done
   /\ Len(arg.snake1) >= 1 /\ Len(arg.snake2) >= 1
   /\ arg.dir1 # "none" /\ arg.dir2 # "none") =>
    (out.value <=> FacingAsStated(arg.snake1[1], arg.dir1, arg.snake2[1], arg.dir2))

\* two 2-cell snakes in one row with their own directions, heads back to
\* back: the call returned false
FacingRuleWitness ==
  /\ fn = "snakesFaceEachOther"
  /\ out.done
  /\ ~out.value
  /\ Len(arg.snake1) = 2 /\ Len(arg.snake2) = 2
  /\ arg.dir1 = getSnakeDirection(arg.snake1) /\ arg.dir2 = getSnakeDirection(arg.snake2)
  /\ arg.dir1 = "left" /\ arg.dir2 = "right"
  /\ arg.snake1[1].y = arg.snake2[1].y
  /\ arg.snake1[1].x < arg.snake2[1].x

\* the paths generateGreedySnake can hand to the direction check in the next
\* loop iteration, whatever the random source draws
Candidates ==
  LET start == parseKey(StartKey(unused, tiles))
      usedGlobal == UsedGlobal(tiles, unused)
      outs == generateGreedySnake(start, tiles, usedGlobal, req.minSnakeLen, req.maxSnakeLen, rng)
                \cup generateGreedySnake(start, tiles, usedGlobal, req.minSnakeLen,
                                         req.maxSnakeLen, Ambient)
  IN {o.path : o \in {q \in outs : q.kind = "path"}}

\* C15: single-cell snakes are exempt from the facing constraint: in
\* solveWithGreedy the direction check never rejects a candidate of length 1,
\* and a placed snake of length 1 never makes it reject a candidate.
SingleCellExempt ==
  (pc = "solve" /\ LoopCond) =>
    \A c \in Candidates :
      /\ Len(c) = 1 => ~ViolatesDirection(c, snakes, directions)
      /\ \A i \in 1..Len(snakes) :
           Len(snakes[i]) = 1 =>
             ~snakesFaceEachOther(c, getSnakeDirection(c), snakes[i], directions[i])

\* a loop iteration with a placed single-cell snake, a placed snake that has
\* a direction, and both a 1-cell and a longer candidate
SingleCellExemptWitness ==
  /\ pc = "solve"
  /\ LoopCond
  /\ \E i, j \in 1..Len(snakes) : Len(snakes[i]) = 1 /\ Len(snakes[j]) >= 2
  /\ \E c, d \in Candidates : Len(c) = 1 /\ Len(d) >= 2

\* C16: in the output of snakesToJSON a 1-cell snake has neither direction
\* nor lookingAt; a snake of 2 or more cells has lookingAt = 2 * head - second
\* cell (the head moved one unit away from the second cell), which is never
\* the second cell.
LookingAtRule ==
  (fn = "snakesToJSON" /\ out.done) =>
    /\ Len(out.value) = Len(arg)
    /\ \A i \in 1..Len(arg) :
         LET snake == arg[i]
             shape == out.value[i]
         IN /\ Len(snake) = 1 => shape.direction = "none" /\ ~shape.lookingAt.present
            /\ Len(snake) >= 2 =>
                 /\ shape.lookingAt.present
                 /\ shape.lookingAt.x = 2 * snake[1].x - snake[2].x
                 /\ shape.lookingAt.y = 2 * snake[1].y - snake[2].y
                 /\ [x |-> shape.lookingAt.x, y |-> shape.lookingAt.y] # snake[2]

\* the output for a 1-cell snake followed by a 3-cell snake that looks down,
\* out of the grid the snakes lie in
LookingAtRuleWitness ==
  /\ fn = "snakesToJSON"
  /\ out.done
  /\ Len(arg) = 2
  /\ Len(arg[1]) = 1
  /\ Len(arg[2]) = 3
  /\ out.value[2].direction = "down"
  /\ out.value[2].lookingAt.y = GridMax + 1

\* C17: for the row of 2 marked cells with minSnakeLen = maxSnakeLen = 2 and
\* seed 1, generateSnakesForShape returns one snake of length 2 that covers
\* both cells, with direction left or right, and attempts = 1.
IsRow2Seed1 == req = Body(Row2, 2, 2, Seed(1))
Row2Seed1Result ==
  (pc = "done" /\ coreCalls = 1 /\ IsRow2Seed1) =>
    /\ result.state = "returned"
    /\ result.ok
    /\ Len(result.snakes) = 1
    /\ Len(result.snakes[1]) = 2
    /\ SnakeKeys(result.snakes[1]) = {<<0, 0>>, <<1, 0>>}
    /\ getSnakeDirection(result.snakes[1]) \in {"left", "right"}
    /\ result.attempts = 1

\* the route answered that request
Row2Seed1Witness ==
  /\ pc = "done"
  /\ coreCalls = 1
  /\ IsRow2Seed1
  /\ via = "route"
  /\ response.success
  /\ expected.state = "returned"

\* C18: for the fully marked 3x3 shape with minSnakeLen = 1, maxSnakeLen = 9
\* and seed 7, generateSnakesForShape with the default cap of 20 attempts
\* returns a solution, found on an attempt in 1..20, whose snakes cover all 9
\* cells.
Block9Seed7Solved ==
  (pc = "done" /\ coreCalls = 1 /\ req = Block9Seed7 /\ maxAttempts = DefaultMaxAttempts) =>
    /\ result.state = "returned"
    /\ result.ok
    /\ result.attempts \in 1..DefaultMaxAttempts
    /\ UNION {SnakeKeys(result.snakes[i]) : i \in 1..Len(result.snakes)}
         = {<<x, y>> : x \in 0..2, y \in 0..2}

\* the route answered that request with a solution of more than one snake
Block9Seed7Witness ==
  /\ pc = "done"
  /\ coreCalls = 1
  /\ req = Block9Seed7
  /\ maxAttempts = DefaultMaxAttempts
  /\ response.success
  /\ Len(response.shapes) > 1

\* C19: parseShape yields a tile at (x, y) exactly when row y of the text
\* (rows separated by line breaks, numbered from 0) has '#' at column x, so
\* padding creates no tile; width is the length of the longest row and
\* height the number of rows.  Row and column of the i-th character are
\* counted from the line breaks before it.
BreaksBefore(text, i) == {j \in 1..(i - 1) : text[j] = "\n"}
RowOf(text, i) == Cardinality(BreaksBefore(text, i))
ColOf(text, i) ==
  LET b == BreaksBefore(text, i)
  IN i - 1 - (IF b = {} THEN 0 ELSE CHOOSE j \in b : \A k \in b : k <= j)
MarkedCells(text) == {<<ColOf(text, i), RowOf(text, i)>> : i \in {j \in 1..Len(text) : text[j] = "#"}}
RowCount(text) == 1 + Cardinality({j \in 1..Len(text) : text[j] = "\n"})
RowLength(text, y) ==
  Cardinality({i \in 1..Len(text) : text[i] # "\n" /\ RowOf(text, i) = y})
ParseRule ==
  (fn = "parseShape" /\ out.done) =>
    /\ Range(out.value.tiles) = MarkedCells(arg)
    /\ Len(out.value.tiles) = Cardinality(MarkedCells(arg))
    /\ out.value.height = RowCount(arg)
    /\ \A y \in 0..(RowCount(arg) - 1) : RowLength(arg, y) <= out.value.width
    /\ \E y \in 0..(RowCount(arg) - 1) : RowLength(arg, y) = out.value.width

\* a text whose first row is shorter than its second: the first row is
\* padded, and the tiles are the marked cells of both rows
ParseRuleWitness ==
  /\ fn = "parseShape"
  /\ out.done
  /\ out.value.height = 2
  /\ RowLength(arg, 0) < RowLength(arg, 1)
  /\ Len(out.value.tiles) = 2
  /\ <<0, 0>> \in Range(out.value.tiles)

\* C20 as stated (README): a solve attempt is abandoned only after 100,000
\* search iterations, and a request makes at most 10 solve attempts before it
\* reports failure.  An attempt is abandoned when solveWithGreedy is about to
\* return null: every finished attempt counted in outcomes as FALSE, and the
\* loop exit with tiles left over.
ReadmeLimits ==
  /\ (pc = "solve" /\ ~LoopCond /\ Len(unused) > 0) => attempts >= ReadmeIterationLimit
  /\ (pc = "done" /\ result.state = "returned" /\ ~result.ok) =>
       Len(outcomes) <= ReadmeAttemptLimit

\* the tiles of the snakes placed so far in this solve attempt
TilesOfPlaced == UNION {SnakeKeys(snakes[i]) : i \in 1..Len(snakes)}

\* C21: at the head of every iteration of solveWithGreedy's loop, whatever
\* placements and backtracks came before, the unused set and the tile sets of
\* the placed snakes are pairwise disjoint and together are the shape's tiles,
\* so that usedGlobal (tiles minus unused) is exactly the placed snakes' tiles.
LoopHeadPartition ==
  (pc = "solve") =>
    /\ \A i \in 1..Len(snakes) : SnakeKeys(snakes[i]) \cap Range(unused) = {}
    /\ \A i, j \in 1..Len(snakes) :
         i # j => SnakeKeys(snakes[i]) \cap SnakeKeys(snakes[j]) = {}
    /\ Range(unused) \cup TilesOfPlaced = Range(tiles)
    /\ UsedGlobal(tiles, unused) = TilesOfPlaced

\* a loop head with two snakes placed and tiles left over, reached after at
\* least one backtrack (every backtrack makes the counter run two ahead of
\* the number of placed snakes)
LoopHeadPartitionWitness ==
  /\ pc = "solve"
  /\ LoopCond
  /\ Len(snakes) = 2
  /\ attempts >= Len(snakes) + 2

\* a step of the loop that popped a snake (lines 499-501), and one that
\* pushed a snake (lines 510-513), within the same solve attempt
PoppedSnake == pc = "solve" /\ pc' = "solve" /\ attempt' = attempt /\ Len(snakes') < Len(snakes)
PushedSnake == pc = "solve" /\ pc' = "solve" /\ attempt' = attempt /\ Len(snakes') > Len(snakes)

\* C22: a backtrack step exactly reverses the most recent commit.  It removes
\* only the last snake and its direction, returns exactly that snake's tiles
\* (none of which was unplaced) to the unused set and keeps every other
\* unplaced tile, snake and direction; a commit appends one snake and its
\* direction and takes exactly that snake's tiles, all of them unplaced, out
\* of the unused set.  So after the backtrack the unused set and the placed
\* list are what they were just before the snake was committed.
BacktrackReversesCommit ==
  [][ /\ PoppedSnake =>
           LET lastSnake == snakes[Len(snakes)]
           IN /\ snakes' = SubSeq(snakes, 1, Len(snakes) - 1)
              /\ directions' = SubSeq(directions, 1, Len(directions) - 1)
              /\ SnakeKeys(lastSnake) \cap Range(unused) = {}
              /\ Range(unused') = Range(unused) \cup SnakeKeys(lastSnake)
              /\ Len(unused') = Len(unused) + Len(lastSnake)
              /\ tiles' = tiles
      /\ PushedSnake =>
           LET snake == snakes'[Len(snakes')]
           IN /\ SubSeq(snakes', 1, Len(snakes)) = snakes
              /\ Len(snakes') = Len(snakes) + 1
              /\ SubSeq(directions', 1, Len(directions)) = directions
              /\ Len(directions') = Len(snakes')
              /\ SnakeKeys(snake) \subseteq Range(unused)
              /\ Range(unused') = Range(unused) \ SnakeKeys(snake)
              /\ Len(unused') = Len(unused) - Len(snake)
              /\ tiles' = tiles
    ]_vars

\* a loop head after a backtrack that left a snake in place: the returned
\* tiles are in the unused set again, behind the tiles that were never taken
BacktrackReversesCommitWitness ==
  /\ pc = "solve"
  /\ Len(snakes) = 1
  /\ attempts = 3
  /\ Len(unused) >= 3
  /\ unused # SeqFilter(tiles, Range(unused))

\* what lines 454-495 yield at the loop head with the given unused set,
\* placed snakes, directions and generator
OutcomesAt(unusedSeq, placed, dirs, r) ==
  TrySnake(0, parseKey(StartKey(unusedSeq, tiles)), tiles, UsedGlobal(tiles, unusedSeq),
           req.minSnakeLen, req.maxSnakeLen, placed, dirs, r)

\* the snakes the iteration right after a backtrack of the current loop head
\* can commit: the backtrack pops the last snake (lines 499-501), and the next
\* iteration runs at the search state that snake was committed at
CommittedAfterBacktrack ==
  LET n == Len(snakes)
      back == SetAddAll(unused, KeysOf(snakes[n]))
      placed == SubSeq(snakes, 1, n - 1)
      dirs == SubSeq(directions, 1, n - 1)
  IN UNION {{p.path : p \in {q \in OutcomesAt(back, placed, dirs, o.rng) : q.kind = "snake"}} :
              o \in {q \in StepOutcomes : q.kind = "none"}}

\* C23 as stated: after a commit is undone the snake that was just removed is
\* not committed again at the same search state (same unused set, same placed
\* list) within the solve attempt.
RemovedSnakeNotRecommitted ==
  (pc = "solve" /\ LoopCond /\ Len(snakes) > 0 /\ attempts + 1 < GreedyCap) =>
    snakes[Len(snakes)] \notin CommittedAfterBacktrack

\* the number of 4-neighbours of a key that are tiles of the shape, placed or
\* not
Degree(key) ==
  Cardinality({t \in Range(tiles) : Abs(t[1] - key[1]) + Abs(t[2] - key[2]) = 1})

\* C24: in every iteration of a solve attempt the start cell chosen for the
\* next snake is an unplaced tile whose degree (4-neighbours that are tiles of
\* the shape, placed or not) is minimal among all currently unplaced tiles.
StartHasMinimalDegree ==
  (pc = "solve" /\ LoopCond) =>
    LET startKey == StartKey(unused, tiles)
    IN /\ startKey \in Range(unused)
       /\ \A u \in Range(unused) : Degree(startKey) <= Degree(u)

\* a loop head with a snake placed where the chosen start is not the first
\* unplaced tile, because a later one has a smaller degree
StartHasMinimalDegreeWitness ==
  /\ pc = "solve"
  /\ LoopCond
  /\ Len(snakes) > 0
  /\ StartKey(unused, tiles) # unused[1]
  /\ Degree(StartKey(unused, tiles)) < Degree(unused[1])

\* the number of 4-neighbours of a key that are still unplaced
FreeDegree(key) ==
  Cardinality({t \in Range(unused) : Abs(t[1] - key[1]) + Abs(t[2] - key[2]) = 1})

\* C25 as stated: new snake construction always starts at the unplaced tile
\* with the fewest free neighbours, the fewest 4-neighbours that are
\* themselves still unplaced, among all unplaced tiles.
StartHasFewestFreeNeighbours ==
  (pc = "solve" /\ LoopCond) =>
    \A u \in Range(unused) : FreeDegree(StartKey(unused, tiles)) <= FreeDegree(u)

\* C25, amended: new snake construction always starts at an unplaced tile
\* with the fewest 4-neighbours among the tiles of the shape, placed or not:
\* every snake the solver commits begins at a tile that was unplaced and
\* whose degree was minimal among the tiles unplaced at that iteration.
CommittedSnakeStartsAtMinimalDegree ==
  [][ PushedSnake =>
        LET startKey == KeyOf(snakes'[Len(snakes')][1])
        IN /\ startKey \in Range(unused)
           /\ \A u \in Range(unused) : Degree(startKey) <= Degree(u)
    ]_vars

\* a loop head where some placed snake began at a tile that had more
\* still-unplaced neighbours than another tile unplaced at that time
CommittedSnakeStartsAtMinimalDegreeWitness ==
  /\ pc = "solve"
  /\ \E i \in 1..Len(snakes) :
       LET free == Range(tiles) \ UNION {SnakeKeys(snakes[j]) : j \in 1..(i - 1)}
           freeDegree(k) ==
             Cardinality({t \in free : Abs(t[1] - k[1]) + Abs(t[2] - k[2]) = 1})
       IN \E u \in free : freeDegree(u) < freeDegree(KeyOf(snakes[i][1]))

\* C26 as stated: ties among unplaced tiles of equal minimal degree are broken
\* by a fixed total order over positions, so that two reachable search states
\* with the same unused set select the same start cell whatever placements
\* and backtracks led to them.  The state a backtrack of the current loop head
\* leads to has the unused set the last snake was committed at (C22), where
\* the start selected was that snake's first cell: the start selected after
\* the backtrack, when the current iteration fails and another one follows, has
\* to be that cell again.
SameUnusedSetSameStart ==
  (/\ pc = "solve" /\ LoopCond /\ Len(snakes) > 0 /\ attempts + 1 < GreedyCap
   /\ \E o \in StepOutcomes : o.kind = "none") =>
    LET lastSnake == snakes[Len(snakes)]
    IN StartKey(SetAddAll(unused, KeysOf(lastSnake)), tiles) = KeyOf(lastSnake[1])

\* C26, amended: ties among unplaced tiles of equal minimal degree are broken
\* by the insertion order of the unused set, the start being the first tile
\* of minimal degree in that order.  A placement takes tiles out and keeps
\* the order of the others; a backtrack puts the tiles of the removed snake
\* behind all the others, in the order of its path; a new solve attempt
\* starts from the order of the shape's tiles.
TiesBrokenByInsertionOrder ==
  [][ /\ (pc = "solve" /\ LoopCond) =>
           \E i \in 1..Len(unused) :
              /\ StartKey(unused, tiles) = unused[i]
              /\ \A k \in 1..Len(unused) : Degree(unused[i]) <= Degree(unused[k])
              /\ \A k \in 1..(i - 1) : Degree(unused[i]) < Degree(unused[k])
      /\ PushedSnake =>
           unused' = SeqFilter(unused, Range(unused) \ SnakeKeys(snakes'[Len(snakes')]))
      /\ PoppedSnake => unused' = unused \o KeysOf(snakes[Len(snakes)])
      /\ (pc' = "solve" /\ (pc # "solve" \/ attempt' # attempt)) => unused' = tiles'
    ]_vars

\* a loop head reached after a backtrack where two unplaced tiles have the
\* minimal degree and the selected start is not the one that comes first in
\* the order of the shape's tiles
TiesBrokenByInsertionOrderWitness ==
  /\ pc = "solve"
  /\ LoopCond
  /\ attempts >= Len(snakes) + 2
  /\ LET startKey == StartKey(unused, tiles)
         inShapeOrder == SeqFilter(tiles, Range(unused))
     IN /\ StartKey(inShapeOrder, tiles) # startKey
        /\ Degree(StartKey(inShapeOrder, tiles)) = Degree(startKey)

\* C27: within one solve attempt the iteration counter goes up by exactly one
\* per selection step, placements and backtracks alike, and never passes the
\* cap handed to solveWithGreedy; with the counter at the cap and tiles still
\* unplaced no further selection is made and the attempt returns failure.
CounterCountsSelections ==
  [][ /\ (PushedSnake \/ PoppedSnake) => (attempts < GreedyCap /\ attempts' = attempts + 1)
      /\ (pc = "solve" /\ pc' = "solve" /\ attempt' = attempt) =>
           (PushedSnake \/ PoppedSnake)
      /\ pc = "solve" => (attempts <= GreedyCap /\ attempts >= Len(snakes))
      /\ (pc = "solve" /\ attempts = GreedyCap /\ Len(unused) > 0) =>
           /\ outcomes' = Append(outcomes, FALSE)
           /\ snakes' \in {snakes, <<>>}
           /\ (pc' = "done" => (result'.state = "returned" /\ ~result'.ok))
    ]_vars

\* a loop head with the counter at the cap and tiles still unplaced, reached
\* through placements and backtracks
CounterCountsSelectionsWitness ==
  /\ pc = "solve"
  /\ attempts = GreedyCap
  /\ Len(unused) > 0
  /\ Len(snakes) > 0

\* the solve attempt in progress returned: success and failure (null) are
\* what the step appends to outcomes
AttemptSucceeded == pc = "solve" /\ outcomes' = Append(outcomes, TRUE)
AttemptFailed == pc = "solve" /\ outcomes' = Append(outcomes, FALSE)

\* C28: a solve attempt returns success only when the unused set is empty,
\* and returns failure, always as null, only in two cases: no acceptable
\* snake could be produced from the selected start while no snake is placed,
\* or the iteration cap was reached with tiles still unplaced.
SuccessAndFailureCases ==
  [][ /\ AttemptSucceeded => Len(unused) = 0
      /\ AttemptFailed =>
           \/ /\ LoopCond
              /\ Len(snakes) = 0
              /\ \E o \in StepOutcomes : o.kind = "none"
           \/ /\ attempts = GreedyCap
              /\ Len(unused) > 0
      /\ (pc = "solve" /\ pc' = "done" /\ result'.state = "returned") =>
           /\ result'.ok = (Len(unused) = 0)
           /\ ~result'.ok => result'.snakes = <<>>
    ]_vars

\* the call is over after a last attempt that failed with the counter at the
\* cap, snakes placed and tiles unplaced
SuccessAndFailureCasesWitness ==
  /\ pc = "done"
  /\ result.state = "returned"
  /\ ~result.ok
  /\ attempts = GreedyCap
  /\ Len(snakes) > 0
  /\ Len(unused) > 0

\* a step that ends solve attempt k and begins attempt k + 1
NextAttemptBegins == pc = "solve" /\ pc' = "solve" /\ attempt' = attempt + 1

\* the generator states solve attempt k can end with: after the draws of the
\* tries that found no snake (line 504), or untouched when the loop ended
\* (line 517)
RngAtAttemptEnd ==
  IF LoopCond THEN {o.rng : o \in {q \in StepOutcomes : q.kind = "none"}} ELSE {rng}

\* C29: every solve attempt starts with all shape tiles unplaced, no snake
\* placed and an iteration counter of zero, whatever earlier attempts did,
\* while the random source is built once per request and never re-seeded: the
\* generator state at the start of attempt k + 1 is the state at the end of
\* attempt k.
AttemptsStartFresh ==
  [][ /\ (pc # "solve" /\ pc' = "solve") =>
           /\ attempt' = 1
           /\ rng' = NewRng(req'.randomSeed)
      /\ (pc' = "solve" /\ (pc # "solve" \/ attempt' # attempt)) =>
           /\ unused' = tiles'
           /\ snakes' = <<>>
           /\ directions' = <<>>
           /\ attempts' = 0
      /\ pc = "solve" => (tiles' = tiles /\ req' = req /\ attempt' \in {attempt, attempt + 1})
      /\ NextAttemptBegins => rng' \in RngAtAttemptEnd
    ]_vars

\* the second solve attempt of a seeded request begins after a first one that
\* drew from the generator: all tiles are unplaced and the generator is not
\* back at its seed
AttemptsStartFreshWitness ==
  /\ pc = "solve"
  /\ attempt = 2
  /\ attempts = 0
  /\ unused = tiles
  /\ snakes = <<>>
  /\ rng.seeded
  /\ rng # NewRng(req.randomSeed)
  /\ Len(outcomes) = 1

\* the start cell and usedGlobal of the iteration at the current loop head
CurrentStart == parseKey(StartKey(unused, tiles))
CurrentUsedGlobal == UsedGlobal(tiles, unused)

RECURSIVE TriedSets(_, _)
\* the inner while loop of lines 475-495 from the value attempts2 on, followed
\* along the tries that accept nothing: frontier holds, for every way the
\* tries so far can have gone, the generator and the candidates that reached
\* the direction check (a null from generateGreedySnake is no candidate, line
\* 479); the result is the sets of candidates tried when the tries ran out
TriedSets(attempts2, frontier) ==
  IF attempts2 >= MaxSnakeAttempts
  THEN {f.tried : f \in frontier}
  ELSE TriedSets(attempts2 + 1,
         UNION {LET outs == generateGreedySnake(CurrentStart, tiles, CurrentUsedGlobal,
                                                req.minSnakeLen, req.maxSnakeLen, f.rng)
                    rejected == {o \in outs : /\ o.kind = "path"
                                              /\ ViolatesDirection(o.path, snakes, directions)}
                    nulls == {o \in outs : o.kind = "null"}
                IN {[rng |-> o.rng, tried |-> f.tried \cup {o.path}] : o \in rejected}
                   \cup {[rng |-> o.rng, tried |-> f.tried] : o \in nulls}
                : f \in frontier})

\* the candidate sets the current iteration can have tried when it finds no
\* snake
TriedBeforeGivingUp == TriedSets(0, {[rng |-> rng, tried |-> {}]})

RECURSIVE SimplePathsFrom(_, _)
\* the simple paths of n cells that begin at start and stay on tiles of the
\* shape that no placed snake uses: the paths of n - 1 cells extended by a
\* 4-neighbour they do not hold yet
SimplePathsFrom(start, n) ==
  IF n = 1 THEN {<<start>>}
  ELSE UNION {{Append(p, parseKey(k)) :
                 k \in {u \in Range(unused) :
                          /\ u \notin SnakeKeys(p)
                          /\ Abs(u[1] - p[Len(p)].x) + Abs(u[2] - p[Len(p)].y) = 1}}
              : p \in SimplePathsFrom(start, n - 1)}

\* the simple paths from the current start on unplaced tiles whose length is
\* between minSnakeLen and maxSnakeLen
AllowedPaths ==
  UNION {SimplePathsFrom(CurrentStart, n) : n \in req.minSnakeLen..req.maxSnakeLen}

\* C30 as stated: for the selected start cell, the candidate paths the solver
\* tries before it gives up on that cell are every simple path that begins at
\* the start, stays on shape tiles not used by placed snakes and has a length
\* between minSnakeLen and maxSnakeLen; each tried candidate is such a path.
TriesEverySimplePath ==
  (pc = "solve" /\ LoopCond) =>
    \A tried \in TriedBeforeGivingUp : tried = AllowedPaths

\* the half of C30 that the tried candidates are such paths
TriedAreSimplePaths ==
  (pc = "solve" /\ LoopCond) =>
    \A tried \in TriedBeforeGivingUp : tried \subseteq AllowedPaths

\* C31: called directly with a shape text that holds no '#',
\* generateSnakesForShape returns success with an empty snake list and
\* attempts = 1, for every maxAttempts >= 1, instead of a failure; such a
\* shape is kept from being reported as solved only by the route's check,
\* which answers 400 without calling the core.
NoTileShapeSolvedDirectly ==
  (pc = "done" /\ ~(\E i \in 1..Len(req.asciiShape) : req.asciiShape[i] = "#")) =>
    /\ via = "direct" =>
         /\ coreCalls = 1
         /\ maxAttempts >= 1
         /\ result = [state |-> "returned", ok |-> TRUE, snakes |-> <<>>, attempts |-> 1]
    /\ via = "route" =>
         /\ coreCalls = 0
         /\ response.sent
         /\ response.status = 400
         /\ ~response.success
         /\ result.state = "none"

\* a direct call with a blank text and maxAttempts = 2 has returned success
NoTileShapeSolvedDirectlyWitness ==
  /\ pc = "done"
  /\ via = "direct"
  /\ req.asciiShape = Blank
  /\ maxAttempts = 2
  /\ result.ok
  /\ result.snakes = <<>>
  /\ tiles = <<>>

\* the page shows a result: generatedShapes or attempts is not null
ShowsResult(p) == p.generatedShapes.present \/ p.attempts.present

\* C32: in the client page, after a generate request completes with a
\* non-success response or with an error, generatedShapes and attempts are
\* both null, so that no result of an earlier successful generation stays
\* displayed or exportable.  They are non-null only after a response with
\* success = true and a shape list: a result is set or replaced only by the
\* completion of a request with such a response, and what is exported is the
\* result shown.
StaleResultsCleared ==
  /\ [](page.status \in {"success", "error"} =>
          (ShowsResult(page) =>
             page.status = "success" /\ page.data.success /\ page.data.hasShapes))
  /\ [][ /\ (ShowsResult(page') /\ (page'.generatedShapes # page.generatedShapes
                                    \/ page'.attempts # page.attempts)) =>
              /\ page.status = "pending"
              /\ page'.status = "success"
              /\ page'.data.success
              /\ page'.data.hasShapes
              /\ page'.generatedShapes = NonNull(page'.data.shapes)
         /\ page'.exported # page.exported =>
              /\ page.generatedShapes.present
              /\ page'.exported = page.generatedShapes
     ]_vars

\* a request has failed after an earlier one had succeeded and its result had
\* been exported: nothing is shown any more
StaleResultsClearedWitness ==
  /\ page.status = "success"
  /\ ~page.data.success
  /\ page.data.hasAttempts
  /\ page.exported.present
  /\ Len(page.exported.value) = 2
  /\ ~ShowsResult(page)

\* C33: snakesFaceEachOther is symmetric: for all snakes A, B and directions
\* dA, dB, snakesFaceEachOther(A, dA, B, dB) equals
\* snakesFaceEachOther(B, dB, A, dA), so that checking a candidate as the
\* first argument against a placed snake decides the pair both ways round.
FacingSymmetric ==
  (fn = "snakesFaceEachOther" /\ out.done) =>
    out.value = snakesFaceEachOther(arg.snake2, arg.dir2, arg.snake1, arg.dir1)

\* a call returned true for a first snake facing right and a second facing
\* left on the same row
FacingSymmetricWitness ==
  /\ fn = "snakesFaceEachOther"
  /\ out.done
  /\ out.value
  /\ arg.dir1 = "right"
  /\ arg.dir2 = "left"
  /\ Len(arg.snake1) = 2
  /\ Len(arg.snake2) = 2

\* C34: throughout a solve attempt the directions list stays parallel to the
\* placed-snake list: after every placement and every backtrack both have
\* the same length, and directions[i] equals getSnakeDirection(snakes[i])
\* for every index i.
DirectionsParallelToSnakes ==
  /\ Len(directions) = Len(snakes)
  /\ \A i \in 1..Len(snakes) : directions[i] = getSnakeDirection(snakes[i])

\* inside an attempt, after a backtrack (more iterations than placed snakes)
\* and a later placement, with a placed snake that has a direction
DirectionsParallelToSnakesWitness ==
  /\ pc = "solve"
  /\ attempts > Len(snakes) + 1
  /\ Len(snakes) >= 2
  /\ \E i \in 1..Len(snakes) : Len(snakes[i]) >= 2 /\ directions[i] # "none"

====
